---- MODULE Spec2Model ----
(***************************************************************************)
(* Model of the synapse-indexer forward indexing loop (indexForward) and   *)
(* of the event processing / upsert engine (processEvents,                 *)
(* upsertBridgeTxnInDb).                                                   *)
(*                                                                         *)
(* Every `await` of the JavaScript source is a scheduling point: between   *)
(* two awaits an invocation runs without interruption, so one action of    *)
(* the model is the code from one access of a shared store (Redis key,     *)
(* Mongo collection) up to the next one.                                   *)
(***************************************************************************)
EXTENDS Integers, Sequences, FiniteSets, TLC

VARIABLES
    head,                \* chain -> block number the RPC node reports
    lock,                \* chain -> value of `${chain}_IS_INDEXING_FORWARD`
    ckpt,                \* chain -> value of `${chain}_LATEST_BLOCK_INDEXED`
    db,                  \* the BridgeTransaction collection, in insertion order
    pc,                  \* invocation -> position in indexForward
    isIndexing,          \* invocation -> local `isIndexing`
    networkLatestBlock,  \* invocation -> local `networkLatestBlock`
    indexedLatestBlock,  \* invocation -> string read from the checkpoint key
    queried,             \* invocation -> block ranges passed to queryFilter
    filteredEvents,      \* invocation -> local `filteredEvents`
    idx,                 \* invocation -> position of the for-of loop
    existingTxn,         \* invocation -> local `existingTxn` (index in db, 0 = null)
    prevDb,              \* collection before the latest direct upsert
    lastUpsert,          \* events of the latest direct upserts (newest last)
    hist,                \* history of the passes of a worker running alone
    probe                \* a call of a pure function: its input and its progress

vars == <<head, lock, ckpt, db, pc, isIndexing, networkLatestBlock,
          indexedLatestBlock, queried, filteredEvents, idx, existingTxn,
          prevDb, lastUpsert, hist, probe>>

loopVars == <<head, lock, ckpt, pc, isIndexing, networkLatestBlock,
              indexedLatestBlock, queried, filteredEvents, idx, existingTxn>>

(***************************************************************************)
(* Bounds and configuration of the model                                   *)
(***************************************************************************)
\* largest block number an RPC node reports
MaxHead == 1000

\* largest number of documents in the collection for the direct upserts
MaxDocs == 3

\* largest number of token logs in the receipt of an extracted event
MaxLogs == 2

\* blocks to index ahead in one pass (indexForward, Math.min second argument)
WindowSize == 500

Chains == {"A", "B"}

\* a third chain, indexed by a worker that runs alone
AllChains == Chains \cup {"C"}

\* chainConfig.id of the chains: Ethereum mainnet, Avalanche and BSC
ChainIdOf(c) == IF c = "A" THEN 1 ELSE IF c = "B" THEN 43114 ELSE 56

\* the timer callbacks that may run indexForward: two for chain A, one for
\* B and one for C
Invocations == {"a1", "a2", "b1", "c1"}

ChainOf(i) == IF i = "b1" THEN "B" ELSE IF i = "c1" THEN "C" ELSE "A"

\* block heights the RPC node of a chain may report
HeadValues(c) ==
    IF c = "A" THEN {h \in {100, 1000, 1001} : h <= MaxHead}
    ELSE IF c = "B" THEN {100, 101}
    ELSE {100, 101, 700}

Null == "null"

(***************************************************************************)
(* Redis values are strings: decimal digits of a block number              *)
(***************************************************************************)
RECURSIVE ToStr(_)
ToStr(n) == IF n < 10 THEN <<n>> ELSE Append(ToStr(n \div 10), n % 10)

RECURSIVE parseInt(_)
parseInt(s) ==
    IF Len(s) = 1 THEN s[1]
    ELSE parseInt(SubSeq(s, 1, Len(s) - 1)) * 10 + s[Len(s)]

(***************************************************************************)
(* Static configuration and chain data                                     *)
(***************************************************************************)
\* chainConfig.tokens: token registry, address -> symbol
Tokens(c) ==
    IF c = "A" THEN [t \in {"USDC_A", "WETH_A"} |-> IF t = "USDC_A" THEN "USDC" ELSE "WETH"]
    ELSE IF c = "B" THEN [t \in {"NUSD_B"} |-> "nUSD"]
    ELSE [t \in {"USDC_C", "NUSD_C"} |-> IF t = "USDC_C" THEN "USDC" ELSE "nUSD"]

\* topic registry: the event names whose topic hash the table holds
\* (getTopicsHash); TokenWithdrawV2 stands for an entry of direction IN
\* that the IN branch of processEvents does not cover
Topics ==
    {"TokenDeposit", "TokenRedeem", "TokenDepositAndSwap", "TokenRedeemAndSwap",
     "TokenRedeemAndRemove", "TokenWithdraw", "TokenMint", "TokenWithdrawAndRemove",
     "TokenMintAndSwap", "TokenWithdrawV2"}

\* topic registry: event name -> direction
Direction(eventName) ==
    IF eventName \in {"TokenDeposit", "TokenRedeem", "TokenDepositAndSwap",
                      "TokenRedeemAndSwap", "TokenRedeemAndRemove"}
    THEN "OUT" ELSE "IN"

\* ethers.utils.keccak256(toUtf8Bytes(txnHash)): an injective table
Keccak(h) ==
    CASE h = "hA1" -> "k1"
      [] h = "hB2" -> "k2"
      [] h = "hA2" -> "k3"
      [] h = "hC1" -> "k5"
      [] h = "hC5" -> "k6"
      [] OTHER    -> "k4"

NoCoins == <<>>

\* the bridge events each chain emits, in block order.  `args` is the
\* decoded bridge log of the receipt, `logs` the receipt's token logs
\* (`data` the raw word, `value` the decoded Transfer value, -1 when the
\* token interface cannot decode the log), `coins` the pool of the call.
ChainEvents(c) ==
    IF c = "A" THEN
      << [block |-> 101, txnHash |-> "hA1", eventName |-> "TokenDeposit",
          timestamp |-> 11,
          args |-> [kappa |-> Null, to |-> "u1", chainId |-> 43114, fee |-> 0,
                    amount |-> 1000, token |-> "USDC_A", swapSuccess |-> FALSE,
                    swapTokenIndex |-> 0],
          logs |-> << [address |-> "USDC_A", data |-> 1000, value |-> 1000] >>,
          coins |-> NoCoins],
         [block |-> 600, txnHash |-> "hA2", eventName |-> "TokenWithdraw",
          timestamp |-> 62,
          args |-> [kappa |-> "k2", to |-> "u2", chainId |-> 0, fee |-> 10,
                    amount |-> 1000, token |-> "USDC_A", swapSuccess |-> FALSE,
                    swapTokenIndex |-> 0],
          logs |-> << [address |-> "USDC_A", data |-> 990, value |-> 990] >>,
          coins |-> NoCoins] >>
    ELSE IF c = "C" THEN
      << [block |-> 101, txnHash |-> "hC0", eventName |-> "RoleGranted",
          timestamp |-> 12,
          args |-> [kappa |-> Null, to |-> "u0", chainId |-> 0, fee |-> 0,
                    amount |-> 0, token |-> Null, swapSuccess |-> FALSE,
                    swapTokenIndex |-> 0],
          logs |-> <<>>,
          coins |-> NoCoins],
         [block |-> 101, txnHash |-> "hC1", eventName |-> "TokenRedeem",
          timestamp |-> 12,
          args |-> [kappa |-> Null, to |-> "u1", chainId |-> 1, fee |-> 0,
                    amount |-> 500, token |-> "NUSD_C", swapSuccess |-> FALSE,
                    swapTokenIndex |-> 0],
          logs |-> << [address |-> "NUSD_C", data |-> 500, value |-> 500] >>,
          coins |-> NoCoins],
         [block |-> 101, txnHash |-> "hC2", eventName |-> "TokenWithdrawV2",
          timestamp |-> 12,
          args |-> [kappa |-> "k7", to |-> "u2", chainId |-> 0, fee |-> 5,
                    amount |-> 300, token |-> "USDC_C", swapSuccess |-> FALSE,
                    swapTokenIndex |-> 0],
          logs |-> << [address |-> "USDC_C", data |-> 295, value |-> 295] >>,
          coins |-> NoCoins],
         [block |-> 101, txnHash |-> "hC3", eventName |-> "TokenMintAndSwap",
          timestamp |-> 12,
          args |-> [kappa |-> "k8", to |-> "u3", chainId |-> 0, fee |-> 5,
                    amount |-> 300, token |-> "NUSD_C", swapSuccess |-> TRUE,
                    swapTokenIndex |-> 1],
          logs |-> << [address |-> "NUSD_C", data |-> 300, value |-> 300] >>,
          coins |-> <<"NUSD_C", "USDC_C">>],
         [block |-> 101, txnHash |-> "hC4", eventName |-> "TokenWithdraw",
          timestamp |-> 12,
          args |-> [kappa |-> "k9", to |-> "u4", chainId |-> 0, fee |-> 10,
                    amount |-> 1000, token |-> "USDC_C", swapSuccess |-> FALSE,
                    swapTokenIndex |-> 0],
          logs |-> << [address |-> "USDC_C", data |-> 990, value |-> 990] >>,
          coins |-> NoCoins],
         [block |-> 600, txnHash |-> "hC5", eventName |-> "TokenDeposit",
          timestamp |-> 61,
          args |-> [kappa |-> Null, to |-> "u5", chainId |-> 1, fee |-> 0,
                    amount |-> 700, token |-> "USDC_C", swapSuccess |-> FALSE,
                    swapTokenIndex |-> 0],
          logs |-> << [address |-> "USDC_C", data |-> 700, value |-> 700] >>,
          coins |-> NoCoins] >>
    ELSE
      << [block |-> 101, txnHash |-> "hB1", eventName |-> "TokenMint",
          timestamp |-> 12,
          args |-> [kappa |-> "k1", to |-> "u1", chainId |-> 0, fee |-> 10,
                    amount |-> 1000, token |-> "NUSD_B", swapSuccess |-> FALSE,
                    swapTokenIndex |-> 0],
          logs |-> << [address |-> "NUSD_B", data |-> 990, value |-> 990],
                      [address |-> "NUSD_B", data |-> 10, value |-> 10] >>,
          coins |-> NoCoins],
         [block |-> 101, txnHash |-> "hB2", eventName |-> "TokenRedeem",
          timestamp |-> 12,
          args |-> [kappa |-> Null, to |-> "u2", chainId |-> 1, fee |-> 0,
                    amount |-> 1000, token |-> "NUSD_B", swapSuccess |-> FALSE,
                    swapTokenIndex |-> 0],
          logs |-> << [address |-> "NUSD_B", data |-> 1000, value |-> 1000] >>,
          coins |-> NoCoins] >>

\* bridgeContract.queryFilter(filter, fromBlock, toBlock): the logs of the
\* block range whose first topic is one of getTopicsHash()
QueryLogs(c, fromBlock, toBlock) ==
    SelectSeq(ChainEvents(c), LAMBDA e : /\ e.eventName \in Topics
                                         /\ fromBlock <= e.block
                                         /\ e.block <= toBlock)

(***************************************************************************)
(* Document store: BridgeTransaction collection                            *)
(***************************************************************************)
\* $set of the given fields on a document
SetFields(doc, args) ==
    [f \in DOMAIN doc \cup DOMAIN args |-> IF f \in DOMAIN args THEN args[f] ELSE doc[f]]

\* findOne that never finds the document
FindOneMisses(d, kappa) == 0

\* BridgeTransaction.findOne({kappa}): position of the first match, 0 = null
FindOne(d, kappa) ==
    LET S == {j \in 1..Len(d) : d[j].kappa = kappa}
    IN  IF S = {} THEN 0 ELSE CHOOSE j \in S : \A k \in S : j <= k

\* new BridgeTransaction(args).save()
Save(d, args) == Append(d, args)

\* BridgeTransaction.findOneAndUpdate({kappa}, args, {new: true})
FindOneAndUpdate(d, kappa, args) ==
    LET j == FindOne(d, kappa)
    IN  IF j = 0 THEN d ELSE [d EXCEPT ![j] = SetFields(@, args)]

\* upsertBridgeTxnInDb without the lookup of the existing document
upsertAlwaysSaves(d, kappa, args) == Save(d, args)

\* upsertBridgeTxnInDb run without interleaving
upsertBridgeTxnInDb(d, kappa, args) ==
    IF FindOne(d, kappa) = 0 THEN Save(d, args)
    ELSE FindOneAndUpdate(d, kappa, args)

(***************************************************************************)
(* processEvents: extraction of the partial record of one event            *)
(***************************************************************************)
\* JavaScript values of `receivedValue`: null, a Number, or a BigNumber object
JsNull == [kind |-> "null", v |-> 0]

JsNumber(n) == [kind |-> "number", v |-> n]

JsBig(n) == [kind |-> "BigNumber", v |-> n]

\* `!x`: null and the Number 0 are falsy, an object never is
Falsy(x) == x.kind = "null" \/ (x.kind = "number" /\ x.v = 0)

\* an optional field of the arguments: undefined keys are not persisted
Opt(field, present, value) ==
    IF present THEN [f \in {field} |-> value] ELSE [f \in {} |-> Null]

\* the first of a set of log positions, 0 when there is none
FirstLog(S) == IF S = {} THEN 0 ELSE CHOOSE j \in S : \A k \in S : j <= k

\* parseTransferLog: first log emitted by a token of the registry
parseTransferLog(logs, c) ==
    LET j == FirstLog({k \in 1..Len(logs) : logs[k].address \in DOMAIN Tokens(c)})
    IN  IF j = 0 THEN [f \in {} |-> Null]
        ELSE LET symbol == Tokens(c)[logs[j].address]
                 sentValue ==
                     IF symbol # "WETH" /\ ChainIdOf(c) = 1 /\ logs[j].value >= 0
                     THEN logs[j].value ELSE logs[j].data
             IN  [sentTokenAddress |-> logs[j].address,
                  sentTokenSymbol |-> symbol,
                  sentValue |-> sentValue]

\* the OUT branch of processEvents: arguments of the upsert
OutArgs(ev, c) ==
    SetFields([fromTxnHash |-> ev.txnHash,
               toAddress |-> ev.args.to,
               fromChainId |-> ChainIdOf(c),
               toChainId |-> ev.args.chainId,
               kappa |-> Keccak(ev.txnHash),
               sentTime |-> ev.timestamp,
               pending |-> TRUE],
              parseTransferLog(ev.logs, c))

IsSwapEvent(eventName) == eventName \in {"TokenWithdrawAndRemove", "TokenMintAndSwap"}

IsDirectEvent(eventName) == eventName \in {"TokenWithdraw", "TokenMint"}

\* swapPoolAddresses[i], undefined (Null) outside the list
CoinAt(coins, i) == IF i + 1 \in 1..Len(coins) THEN coins[i + 1] ELSE Null

\* receivedToken after the event-name branches and the Avalanche GMX remap
ReceivedToken0(ev, c) ==
    LET t == IF IsSwapEvent(ev.eventName)
             THEN IF ev.args.swapSuccess THEN CoinAt(ev.coins, ev.args.swapTokenIndex)
                  ELSE IF ChainIdOf(c) = 1 THEN "0x1b84765de8b7566e4ceaf4d0fd3c5af52d3dde4f"
                  ELSE CoinAt(ev.coins, 0)
             ELSE ev.args.token
    IN  IF ChainIdOf(c) = 43114 /\ t = "0x20A9DC684B4d0407EF8C9A302BEAaA18ee15F656"
        THEN "0x62edc0692BD897D2295872a9FFCac5425011c661" ELSE t

\* receivedValue before the log search: amount - fee for TokenWithdraw
ReceivedValue0(ev) ==
    IF ev.eventName = "TokenWithdraw" THEN JsNumber(ev.args.amount - ev.args.fee)
    ELSE JsNull

\* the rescan stopping at the first log that does not exceed the amount
MintStopNotAbove(logs, amount) ==
    LET j == FirstLog({k \in 1..Len(logs) : amount >= logs[k].data})
    IN  IF j = 0 THEN Len(logs) ELSE j

\* the rescan of a TokenMint leg: the log the for-of loop stops at
MintStop(logs, amount) ==
    LET j == FirstLog({k \in 1..Len(logs) : amount > logs[k].data})
    IN  IF j = 0 THEN Len(logs) ELSE j

\* swapSuccess as persisted: null for the direct events
SwapSuccessOf(ev) ==
    IF IsSwapEvent(ev.eventName) THEN (IF ev.args.swapSuccess THEN "true" ELSE "false")
    ELSE Null

\* the IN branch of processEvents: outcome "upsert" with its arguments,
\* "skip" (continue) or "throw" (parseLog rejects the log)
InLeg(ev, c) ==
    LET token0 == ReceivedToken0(ev, c)
        value0 == ReceivedValue0(ev)
        j      == FirstLog({k \in 1..Len(ev.logs) : ev.logs[k].address = token0})
        scanned == Falsy(value0)
        value1 == IF scanned /\ j # 0 THEN JsBig(ev.logs[j].value) ELSE value0
        isMint == ev.eventName = "TokenMint"
        m      == MintStop(ev.logs, ev.args.amount)
        value2 == IF isMint /\ m # 0 THEN JsBig(ev.logs[m].data) ELSE value1
        token2 == IF isMint /\ m # 0 THEN ev.logs[m].address ELSE token0
        value3 == IF SwapSuccessOf(ev) # "true" THEN JsNumber(value2.v - ev.args.fee)
                  ELSE value2
    IN  IF ~ (IsSwapEvent(ev.eventName) \/ IsDirectEvent(ev.eventName))
        THEN [outcome |-> "skip", kappa |-> ev.args.kappa, args |-> [f \in {} |-> Null]]
        ELSE IF scanned /\ j = 0
        THEN [outcome |-> "skip", kappa |-> ev.args.kappa, args |-> [f \in {} |-> Null]]
        ELSE IF scanned /\ ev.logs[j].value < 0
        THEN [outcome |-> "throw", kappa |-> ev.args.kappa, args |-> [f \in {} |-> Null]]
        ELSE [outcome |-> "upsert",
              kappa |-> ev.args.kappa,
              args |-> SetFields(
                  SetFields([toTxnHash |-> ev.txnHash,
                             toAddress |-> ev.args.to,
                             receivedValue |-> value3.v,
                             swapSuccess |-> SwapSuccessOf(ev),
                             kappa |-> ev.args.kappa,
                             receivedTime |-> ev.timestamp,
                             toChainId |-> ChainIdOf(c),
                             pending |-> FALSE],
                            Opt("receivedTokenAddress", token2 # Null, token2)),
                  Opt("receivedTokenSymbol", token2 \in DOMAIN Tokens(c),
                      IF token2 \in DOMAIN Tokens(c) THEN Tokens(c)[token2] ELSE Null))]

\* one iteration of the for-of loop of processEvents up to the upsert
Leg(ev, c) ==
    IF Direction(ev.eventName) = "OUT"
    THEN [outcome |-> "upsert", kappa |-> Keccak(ev.txnHash), args |-> OutArgs(ev, c)]
    ELSE InLeg(ev, c)

(***************************************************************************)
(* indexForward                                                            *)
(***************************************************************************)
\* positions at which no pass of the invocation is running
Returned == {"idle", "skipped", "uptodate", "done", "failed"}

\* the locals of invocation i go out of scope when indexForward returns
Return(i) ==
    /\ isIndexing' = [isIndexing EXCEPT ![i] = Null]
    /\ networkLatestBlock' = [networkLatestBlock EXCEPT ![i] = 0]
    /\ indexedLatestBlock' = [indexedLatestBlock EXCEPT ![i] = <<>>]
    /\ queried' = [queried EXCEPT ![i] = <<>>]
    /\ filteredEvents' = [filteredEvents EXCEPT ![i] = <<>>]
    /\ idx' = [idx EXCEPT ![i] = 0]
    /\ existingTxn' = [existingTxn EXCEPT ![i] = 0]

locals == <<isIndexing, networkLatestBlock, indexedLatestBlock, queried,
            filteredEvents, idx, existingTxn>>

\* indexedLatestBlock after the default: a missing (falsy) value is the head
IndexedLatest(raw, networkLatest) ==
    IF raw = <<>> THEN networkLatest ELSE parseInt(raw)

\* the window without the cap of 500 blocks
maxBlockUncapped(networkLatest, indexedLatest) == networkLatest

\* maxBlockToIndexUntil = Math.min(networkLatestBlock, indexedLatestBlock + 500)
maxBlockToIndexUntil(networkLatest, indexedLatest) ==
    IF networkLatest <= indexedLatest + WindowSize THEN networkLatest
    ELSE indexedLatest + WindowSize

\* no call of a pure function is being followed
NoProbe == [kind |-> "none"]

\* the history of a worker none of whose passes has started yet
NoHist ==
    [log |-> <<>>, range |-> <<>>, db0 |-> <<>>, ckpt0 |-> <<>>, last |-> <<>>,
     first |-> <<>>, lo |-> 0, hi |-> 0, gap |-> FALSE, okLast |-> <<>>, okPrevEnd |-> 0]

\* the store is empty (first run) or holds the checkpoint 100 of every chain
Init ==
    /\ head = [c \in AllChains |-> 100]
    /\ lock = [c \in AllChains |-> Null]
    /\ ckpt \in {[c \in AllChains |-> <<>>], [c \in AllChains |-> ToStr(100)]}
    /\ db = <<>>
    /\ pc = [i \in Invocations |-> "idle"]
    /\ isIndexing = [i \in Invocations |-> Null]
    /\ networkLatestBlock = [i \in Invocations |-> 0]
    /\ indexedLatestBlock = [i \in Invocations |-> <<>>]
    /\ queried = [i \in Invocations |-> <<>>]
    /\ filteredEvents = [i \in Invocations |-> <<>>]
    /\ idx = [i \in Invocations |-> 0]
    /\ existingTxn = [i \in Invocations |-> 0]
    /\ prevDb = <<>>
    /\ lastUpsert = <<>>
    /\ hist = NoHist
    /\ probe = NoProbe

\* the external trigger calls indexForward: the flag is read (lines 9-17)
Start(i) ==
    /\ pc[i] \in Returned
    /\ pc' = [pc EXCEPT ![i] = "l18"]
    /\ isIndexing' = [isIndexing EXCEPT ![i] = lock[ChainOf(i)]]
    /\ UNCHANGED <<head, lock, ckpt, db, networkLatestBlock, indexedLatestBlock,
                   queried, filteredEvents, idx, existingTxn, prevDb, lastUpsert, probe>>

\* CheckLock whose early return resets the flag
CheckLockResets(i) ==
    /\ pc[i] = "l18"
    /\ IF isIndexing[i] = "true"
       THEN /\ pc' = [pc EXCEPT ![i] = "skipped"]
            /\ lock' = [lock EXCEPT ![ChainOf(i)] = "false"]
            /\ Return(i)
       ELSE /\ pc' = [pc EXCEPT ![i] = "l29"]
            /\ lock' = [lock EXCEPT ![ChainOf(i)] = "true"]
            /\ UNCHANGED locals
    /\ UNCHANGED <<head, ckpt, db, prevDb, lastUpsert, probe>>

\* lines 18-22: return when the flag read is "true", else set it
CheckLock(i) ==
    /\ pc[i] = "l18"
    /\ IF isIndexing[i] = "true"
       THEN /\ pc' = [pc EXCEPT ![i] = "skipped"]
            /\ lock' = lock
            /\ Return(i)
       ELSE /\ pc' = [pc EXCEPT ![i] = "l29"]
            /\ lock' = [lock EXCEPT ![ChainOf(i)] = "true"]
            /\ UNCHANGED locals
    /\ UNCHANGED <<head, ckpt, db, prevDb, lastUpsert, probe>>

\* line 29: w3Provider.getBlockNumber()
GetBlockNumber(i) ==
    /\ pc[i] = "l29"
    /\ pc' = [pc EXCEPT ![i] = "l30"]
    /\ networkLatestBlock' = [networkLatestBlock EXCEPT ![i] = head[ChainOf(i)]]
    /\ UNCHANGED <<head, lock, ckpt, db, isIndexing, indexedLatestBlock,
                   queried, filteredEvents, idx, existingTxn, prevDb, lastUpsert, probe>>

\* lines 30-32: redisClient.get of the checkpoint
GetCheckpoint(i) ==
    /\ pc[i] = "l30"
    /\ pc' = [pc EXCEPT ![i] = "l35"]
    /\ indexedLatestBlock' = [indexedLatestBlock EXCEPT ![i] = ckpt[ChainOf(i)]]
    /\ UNCHANGED <<head, lock, ckpt, db, isIndexing, networkLatestBlock,
                   queried, filteredEvents, idx, existingTxn, prevDb, lastUpsert, probe>>

\* CheckUpToDate whose early return leaves the flag set
CheckUpToDateKeepsLock(i) ==
    /\ pc[i] = "l35"
    /\ IF IndexedLatest(indexedLatestBlock[i], networkLatestBlock[i]) = networkLatestBlock[i]
       THEN /\ pc' = [pc EXCEPT ![i] = "uptodate"]
            /\ lock' = lock
            /\ Return(i)
       ELSE /\ pc' = [pc EXCEPT ![i] = "l60"]
            /\ lock' = lock
            /\ UNCHANGED locals
    /\ UNCHANGED <<head, ckpt, db, prevDb, lastUpsert, probe>>

\* lines 33-39: up to date: reset the flag and return
CheckUpToDate(i) ==
    /\ pc[i] = "l35"
    /\ IF IndexedLatest(indexedLatestBlock[i], networkLatestBlock[i]) = networkLatestBlock[i]
       THEN /\ pc' = [pc EXCEPT ![i] = "uptodate"]
            /\ lock' = [lock EXCEPT ![ChainOf(i)] = "false"]
            /\ Return(i)
       ELSE /\ pc' = [pc EXCEPT ![i] = "l60"]
            /\ lock' = lock
            /\ UNCHANGED locals
    /\ UNCHANGED <<head, ckpt, db, prevDb, lastUpsert, probe>>

\* lines 41-69: the window and the log query
QueryFilter(i) ==
    LET from == IndexedLatest(indexedLatestBlock[i], networkLatestBlock[i])
        to   == maxBlockToIndexUntil(networkLatestBlock[i], from)
    IN  /\ pc[i] = "l60"
        /\ pc' = [pc EXCEPT ![i] = "l131"]
        /\ queried' = [queried EXCEPT ![i] = <<from, to>>]
        /\ filteredEvents' = [filteredEvents EXCEPT ![i] = QueryLogs(ChainOf(i), from, to)]
        /\ idx' = [idx EXCEPT ![i] = 1]
        /\ UNCHANGED <<head, lock, ckpt, db, isIndexing, networkLatestBlock,
                       indexedLatestBlock, existingTxn, prevDb, lastUpsert, probe>>

\* ProcessEvent whose loop ends one event early
ProcessEventSkipsLast(i) ==
    /\ pc[i] = "l131"
    /\ IF idx[i] >= Len(filteredEvents[i])
       THEN /\ pc' = [pc EXCEPT ![i] = "l78"]
            /\ UNCHANGED <<idx, existingTxn>>
       ELSE LET leg == Leg(filteredEvents[i][idx[i]], ChainOf(i))
            IN  CASE leg.outcome = "skip" ->
                       /\ idx' = [idx EXCEPT ![i] = @ + 1]
                       /\ UNCHANGED <<pc, existingTxn>>
                  [] leg.outcome = "throw" ->
                       /\ pc' = [pc EXCEPT ![i] = "l84"]
                       /\ UNCHANGED <<idx, existingTxn>>
                  [] OTHER ->
                       /\ pc' = [pc EXCEPT ![i] = "l118"]
                       /\ existingTxn' = [existingTxn EXCEPT ![i] = FindOne(db, leg.kappa)]
                       /\ idx' = idx
    /\ UNCHANGED <<head, lock, ckpt, db, isIndexing, networkLatestBlock,
                   indexedLatestBlock, queried, filteredEvents, prevDb, lastUpsert, probe>>

\* ProcessEvent in which a skipped event ends the loop with an exception
ProcessEventSkipAborts(i) ==
    /\ pc[i] = "l131"
    /\ IF idx[i] > Len(filteredEvents[i])
       THEN /\ pc' = [pc EXCEPT ![i] = "l78"]
            /\ UNCHANGED <<idx, existingTxn>>
       ELSE LET leg == Leg(filteredEvents[i][idx[i]], ChainOf(i))
            IN  CASE leg.outcome \in {"skip", "throw"} ->
                       /\ pc' = [pc EXCEPT ![i] = "l84"]
                       /\ UNCHANGED <<idx, existingTxn>>
                  [] OTHER ->
                       /\ pc' = [pc EXCEPT ![i] = "l118"]
                       /\ existingTxn' = [existingTxn EXCEPT ![i] = FindOne(db, leg.kappa)]
                       /\ idx' = idx
    /\ UNCHANGED <<head, lock, ckpt, db, isIndexing, networkLatestBlock,
                   indexedLatestBlock, queried, filteredEvents, prevDb, lastUpsert, probe>>

\* processEvents lines 131-262 and 113-115: the next event up to findOne;
\* the loop ends when the events are exhausted (indexForward line 73 returns)
ProcessEvent(i) ==
    /\ pc[i] = "l131"
    /\ IF idx[i] > Len(filteredEvents[i])
       THEN /\ pc' = [pc EXCEPT ![i] = "l78"]
            /\ UNCHANGED <<idx, existingTxn>>
       ELSE LET leg == Leg(filteredEvents[i][idx[i]], ChainOf(i))
            IN  CASE leg.outcome = "skip" ->
                       /\ idx' = [idx EXCEPT ![i] = @ + 1]
                       /\ UNCHANGED <<pc, existingTxn>>
                  [] leg.outcome = "throw" ->
                       /\ pc' = [pc EXCEPT ![i] = "l84"]
                       /\ UNCHANGED <<idx, existingTxn>>
                  [] OTHER ->
                       /\ pc' = [pc EXCEPT ![i] = "l118"]
                       /\ existingTxn' = [existingTxn EXCEPT ![i] = FindOne(db, leg.kappa)]
                       /\ idx' = idx
    /\ UNCHANGED <<head, lock, ckpt, db, isIndexing, networkLatestBlock,
                   indexedLatestBlock, queried, filteredEvents, prevDb, lastUpsert, probe>>

\* upsertBridgeTxnInDb lines 117-127: save or findOneAndUpdate
UpsertWrite(i) ==
    LET leg == Leg(filteredEvents[i][idx[i]], ChainOf(i))
    IN  /\ pc[i] = "l118"
        /\ db' = IF existingTxn[i] = 0 THEN Save(db, leg.args)
                 ELSE FindOneAndUpdate(db, leg.kappa, leg.args)
        /\ pc' = [pc EXCEPT ![i] = "l131"]
        /\ idx' = [idx EXCEPT ![i] = @ + 1]
        /\ existingTxn' = [existingTxn EXCEPT ![i] = 0]
        /\ UNCHANGED <<head, lock, ckpt, isIndexing, networkLatestBlock,
                       indexedLatestBlock, queried, filteredEvents, prevDb, lastUpsert, probe>>

\* the flag reset together with the set of the checkpoint, before line 79
SetCheckpointReleases(i) ==
    /\ pc[i] = "l78"
    /\ pc' = [pc EXCEPT ![i] = "l79"]
    /\ ckpt' = [ckpt EXCEPT ![ChainOf(i)] =
                   ToStr(maxBlockToIndexUntil(networkLatestBlock[i],
                             IndexedLatest(indexedLatestBlock[i], networkLatestBlock[i])))]
    /\ lock' = [lock EXCEPT ![ChainOf(i)] = "false"]
    /\ UNCHANGED <<head, db, isIndexing, networkLatestBlock, indexedLatestBlock,
                   queried, filteredEvents, idx, existingTxn, prevDb, lastUpsert, probe>>

\* the checkpoint set to the head instead of the end of the window
SetCheckpointToHead(i) ==
    /\ pc[i] = "l78"
    /\ pc' = [pc EXCEPT ![i] = "l79"]
    /\ ckpt' = [ckpt EXCEPT ![ChainOf(i)] = ToStr(networkLatestBlock[i])]
    /\ UNCHANGED <<head, lock, db, isIndexing, networkLatestBlock, indexedLatestBlock,
                   queried, filteredEvents, idx, existingTxn, prevDb, lastUpsert, probe>>

\* line 78: persist the checkpoint
SetCheckpoint(i) ==
    /\ pc[i] = "l78"
    /\ pc' = [pc EXCEPT ![i] = "l79"]
    /\ ckpt' = [ckpt EXCEPT ![ChainOf(i)] =
                   ToStr(maxBlockToIndexUntil(networkLatestBlock[i],
                             IndexedLatest(indexedLatestBlock[i], networkLatestBlock[i])))]
    /\ UNCHANGED <<head, lock, db, isIndexing, networkLatestBlock, indexedLatestBlock,
                   queried, filteredEvents, idx, existingTxn, prevDb, lastUpsert, probe>>

\* lines 79-81: reset the flag, disconnect, return
ReleaseLock(i) ==
    /\ pc[i] = "l79"
    /\ pc' = [pc EXCEPT ![i] = "done"]
    /\ lock' = [lock EXCEPT ![ChainOf(i)] = "false"]
    /\ Return(i)
    /\ UNCHANGED <<head, ckpt, db, prevDb, lastUpsert, probe>>

\* an awaited call of the chain reader or of the document store rejects:
\* getBlockNumber, the checkpoint read, queryFilter, the fetches of an
\* event, findOne, save, findOneAndUpdate.  Control goes to the catch.
Throw(i) ==
    /\ \/ pc[i] \in {"l29", "l30", "l60", "l118"}
       \/ pc[i] = "l131" /\ idx[i] <= Len(filteredEvents[i])
    /\ pc' = [pc EXCEPT ![i] = "l84"]
    /\ UNCHANGED <<head, lock, ckpt, db, isIndexing, networkLatestBlock, indexedLatestBlock,
                   queried, filteredEvents, idx, existingTxn, prevDb, lastUpsert, probe>>

\* a catch block that only logs the error
CatchKeepsLock(i) ==
    /\ pc[i] = "l84"
    /\ pc' = [pc EXCEPT ![i] = "failed"]
    /\ Return(i)
    /\ UNCHANGED <<head, lock, ckpt, db, prevDb, lastUpsert, probe>>

\* a catch block that also advances the checkpoint to the head read
CatchAdvances(i) ==
    /\ pc[i] = "l84"
    /\ pc' = [pc EXCEPT ![i] = "failed"]
    /\ lock' = [lock EXCEPT ![ChainOf(i)] = "false"]
    /\ ckpt' = [ckpt EXCEPT ![ChainOf(i)] = ToStr(networkLatestBlock[i])]
    /\ Return(i)
    /\ UNCHANGED <<head, db, prevDb, lastUpsert, probe>>

\* lines 82-85: the catch block resets the flag
Catch(i) ==
    /\ pc[i] = "l84"
    /\ pc' = [pc EXCEPT ![i] = "failed"]
    /\ lock' = [lock EXCEPT ![ChainOf(i)] = "false"]
    /\ Return(i)
    /\ UNCHANGED <<head, ckpt, db, prevDb, lastUpsert, probe>>

\* the height reported by the chain's RPC node changes
HeadChange(c) ==
    /\ \E h \in HeadValues(c) \ {head[c]} : head' = [head EXCEPT ![c] = h]
    /\ UNCHANGED <<lock, ckpt, db, pc, isIndexing, networkLatestBlock, indexedLatestBlock,
                   queried, filteredEvents, idx, existingTxn, prevDb, lastUpsert, probe>>

\* one worker per chain, as the periodic trigger is meant to run them
Workers == {"a1", "b1"}

Next ==
    \/ \E i \in Workers : Start(i) /\ UNCHANGED hist
    \/ \E i \in Workers : CheckLock(i) /\ UNCHANGED hist
    \/ \E i \in Workers : GetBlockNumber(i) /\ UNCHANGED hist
    \/ \E i \in Workers : GetCheckpoint(i) /\ UNCHANGED hist
    \/ \E i \in Workers : CheckUpToDate(i) /\ UNCHANGED hist
    \/ \E i \in Workers : QueryFilter(i) /\ UNCHANGED hist
    \/ \E i \in Workers : ProcessEvent(i) /\ UNCHANGED hist
    \/ \E i \in Workers : UpsertWrite(i) /\ UNCHANGED hist
    \/ \E i \in Workers : SetCheckpoint(i) /\ UNCHANGED hist
    \/ \E i \in Workers : ReleaseLock(i) /\ UNCHANGED hist
    \/ \E i \in Workers : Throw(i) /\ UNCHANGED hist
    \/ \E i \in Workers : Catch(i) /\ UNCHANGED hist
    \/ \E c \in Chains : HeadChange(c) /\ UNCHANGED hist

Spec == Init /\ [][Next]_vars

\* two triggers of chain A whose invocations may overlap
Overlapping == {"a1", "a2"}

NextOverlap ==
    \/ \E i \in Overlapping : Start(i) /\ UNCHANGED hist
    \/ \E i \in Overlapping : CheckLock(i) /\ UNCHANGED hist
    \/ \E i \in Overlapping : GetBlockNumber(i) /\ UNCHANGED hist
    \/ \E i \in Overlapping : GetCheckpoint(i) /\ UNCHANGED hist
    \/ \E i \in Overlapping : CheckUpToDate(i) /\ UNCHANGED hist
    \/ \E i \in Overlapping : QueryFilter(i) /\ UNCHANGED hist
    \/ \E i \in Overlapping : ProcessEvent(i) /\ UNCHANGED hist
    \/ \E i \in Overlapping : UpsertWrite(i) /\ UNCHANGED hist
    \/ \E i \in Overlapping : SetCheckpoint(i) /\ UNCHANGED hist
    \/ \E i \in Overlapping : ReleaseLock(i) /\ UNCHANGED hist
    \/ \E i \in Overlapping : Throw(i) /\ UNCHANGED hist
    \/ \E i \in Overlapping : Catch(i) /\ UNCHANGED hist
    \/ HeadChange("A") /\ UNCHANGED hist

SpecOverlap == Init /\ [][NextOverlap]_vars

\* a step of a pass of invocation i other than an exception: the runtime
\* resumes the invocation once the call it awaits has settled
PassStep(i) ==
    \/ CheckLock(i)
    \/ GetBlockNumber(i)
    \/ GetCheckpoint(i)
    \/ CheckUpToDate(i)
    \/ QueryFilter(i)
    \/ ProcessEvent(i)
    \/ UpsertWrite(i)
    \/ SetCheckpoint(i)
    \/ ReleaseLock(i)
    \/ Catch(i)

\* the worker of chain B alone
Alone == {"b1"}

NextAlone ==
    \/ \E i \in Alone : Start(i) /\ UNCHANGED hist
    \/ \E i \in Alone : CheckLock(i) /\ UNCHANGED hist
    \/ \E i \in Alone : GetBlockNumber(i) /\ UNCHANGED hist
    \/ \E i \in Alone : GetCheckpoint(i) /\ UNCHANGED hist
    \/ \E i \in Alone : CheckUpToDate(i) /\ UNCHANGED hist
    \/ \E i \in Alone : QueryFilter(i) /\ UNCHANGED hist
    \/ \E i \in Alone : ProcessEvent(i) /\ UNCHANGED hist
    \/ \E i \in Alone : UpsertWrite(i) /\ UNCHANGED hist
    \/ \E i \in Alone : SetCheckpoint(i) /\ UNCHANGED hist
    \/ \E i \in Alone : ReleaseLock(i) /\ UNCHANGED hist
    \/ \E i \in Alone : Throw(i) /\ UNCHANGED hist
    \/ \E i \in Alone : Catch(i) /\ UNCHANGED hist
    \/ HeadChange("B") /\ UNCHANGED hist

\* a worker each of whose awaited calls settles: a pass that has started
\* goes on to its next step, the trigger and the exceptions are free
SpecFair ==
    /\ Init
    /\ [][NextAlone]_vars
    /\ \A i \in Alone : WF_vars(PassStep(i) /\ UNCHANGED hist)

(***************************************************************************)
(* A worker that runs alone on chain C, with the history of its passes     *)
(***************************************************************************)
Single == {"c1"}

\* one effect of a pass, in the order the effects happen
Entry(op, n) == [op |-> op, n |-> n]

\* the effects of the current pass after a step of invocation i; fault
\* when the step is an exception raised by a call to the outside
LogAfter(i, fault) ==
    LET p == pc[i]
        q == pc'[i]
    IN  IF fault THEN Append(hist.log, Entry("fault", idx[i]))
        ELSE IF p \in Returned THEN <<>>
        ELSE IF p = "l18" /\ q = "l29" THEN Append(hist.log, Entry("lock", 0))
        ELSE IF p = "l60" /\ q = "l131"
        THEN Append(hist.log, Entry("query", Len(filteredEvents'[i])))
        ELSE IF p = "l131" /\ q = "l118" THEN Append(hist.log, Entry("begin", idx[i]))
        ELSE IF p = "l131" /\ q = "l131"
        THEN hist.log \o <<Entry("begin", idx[i]), Entry("skip", idx[i])>>
        ELSE IF p = "l118" /\ q = "l131" THEN Append(hist.log, Entry("upsert", idx[i]))
        ELSE IF p = "l78" /\ q = "l79"
        THEN Append(hist.log, Entry("checkpoint", parseInt(ckpt'[ChainOf(i)])))
        ELSE IF q \in {"uptodate", "done", "failed"}
        THEN Append(hist.log, Entry("unlock", 0))
        ELSE hist.log

\* the number of entries of a log with the given operation
Count(log, op) == Cardinality({k \in 1..Len(log) : log[k].op = op})

\* what is remembered of the pass of invocation i that has returned
Summary(i) ==
    [result |-> pc[i], range |-> hist.range, db0 |-> hist.db0,
     ckpt0 |-> hist.ckpt0, ckpt1 |-> ckpt[ChainOf(i)],
     upserts |-> Count(hist.log, "upsert")]

\* the history after a step of invocation i: the effects of the current
\* pass, the pass before it, and the blocks the windows of the passes that
\* ran to the end have covered (lo..hi, gap when a block between two
\* windows was left out)
Track(i, fault) ==
    LET started == pc[i] \in Returned
        ok      == pc'[i] = "done"
        r       == queried[i]
        joins   == hist.hi = 0 \/ (r[1] <= hist.hi + 1 /\ r[2] >= hist.lo - 1)
        grows   == ok /\ r[1] <= r[2]
    IN  hist' = [log |-> LogAfter(i, fault),
                 range |-> IF started THEN <<>>
                           ELSE IF queried'[i] # <<>> THEN queried'[i]
                           ELSE hist.range,
                 db0 |-> IF started THEN db ELSE hist.db0,
                 ckpt0 |-> IF started THEN ckpt[ChainOf(i)] ELSE hist.ckpt0,
                 last |-> IF started /\ pc[i] # "idle" THEN <<Summary(i)>>
                          ELSE hist.last,
                 first |-> IF started /\ pc[i] = "idle" THEN ckpt[ChainOf(i)]
                           ELSE hist.first,
                 lo |-> IF grows /\ (hist.hi = 0 \/ r[1] < hist.lo) THEN r[1]
                        ELSE hist.lo,
                 hi |-> IF grows /\ r[2] > hist.hi THEN r[2] ELSE hist.hi,
                 gap |-> hist.gap \/ (grows /\ ~ joins),
                 okLast |-> IF ok THEN r ELSE hist.okLast,
                 okPrevEnd |-> IF ok /\ hist.okLast # <<>> THEN hist.okLast[2]
                               ELSE hist.okPrevEnd]

NextSingle ==
    \/ \E i \in Single : Start(i) /\ Track(i, FALSE)
    \/ \E i \in Single : CheckLock(i) /\ Track(i, FALSE)
    \/ \E i \in Single : GetBlockNumber(i) /\ Track(i, FALSE)
    \/ \E i \in Single : GetCheckpoint(i) /\ Track(i, FALSE)
    \/ \E i \in Single : CheckUpToDate(i) /\ Track(i, FALSE)
    \/ \E i \in Single : QueryFilter(i) /\ Track(i, FALSE)
    \/ \E i \in Single : ProcessEvent(i) /\ Track(i, FALSE)
    \/ \E i \in Single : UpsertWrite(i) /\ Track(i, FALSE)
    \/ \E i \in Single : SetCheckpoint(i) /\ Track(i, FALSE)
    \/ \E i \in Single : ReleaseLock(i) /\ Track(i, FALSE)
    \/ \E i \in Single : Throw(i) /\ Track(i, TRUE)
    \/ \E i \in Single : Catch(i) /\ Track(i, FALSE)
    \/ HeadChange("C") /\ UNCHANGED hist

SpecSingle == Init /\ [][NextSingle]_vars

(***************************************************************************)
(* upsertBridgeTxnInDb applied directly, one call after the other          *)
(***************************************************************************)
\* the events whose leg reaches the upsert, as <<chain, position>>
UpsertLegs ==
    {e \in Chains \X (1..2) : Leg(ChainEvents(e[1])[e[2]], e[1]).outcome = "upsert"}

\* upsertBridgeTxnInDb(kappa, args) runs to completion on the collection
DirectUpsert(e) ==
    LET leg == Leg(ChainEvents(e[1])[e[2]], e[1])
    IN  /\ prevDb' = db
        /\ db' = upsertBridgeTxnInDb(db, leg.kappa, leg.args)
        /\ lastUpsert' = (IF lastUpsert = <<>> THEN <<>>
                          ELSE <<lastUpsert[Len(lastUpsert)]>>) \o <<e>>
        /\ UNCHANGED <<loopVars, hist, probe>>

\* the save of a call whose findOne ran before another call inserted the
\* kappa: the document is inserted although the kappa is present by now
RacingSave(e) ==
    LET leg == Leg(ChainEvents(e[1])[e[2]], e[1])
    IN  /\ Len(db) < MaxDocs
        /\ prevDb' = db
        /\ db' = Save(db, leg.args)
        /\ lastUpsert' = <<>>
        /\ UNCHANGED <<loopVars, hist, probe>>

NextUpsert ==
    \/ \E e \in UpsertLegs : DirectUpsert(e)
    \/ \E e \in UpsertLegs : RacingSave(e)

SpecUpsert == Init /\ [][NextUpsert]_vars

(***************************************************************************)
(* One iteration of processEvents on an event drawn from a set of inputs   *)
(***************************************************************************)
\* event names of the drawn events: the four IN events the branch covers
\* and one OUT event
LegNames ==
    {"TokenWithdraw", "TokenMint", "TokenWithdrawAndRemove", "TokenMintAndSwap",
     "TokenDeposit"}

\* decoded amounts and fees of the drawn events
Amounts == {10, 15, 1000}

Fees == {0, 10}

\* token logs a receipt may hold
LogChoices ==
    {[address |-> "USDC_C", data |-> d, value |-> d] : d \in {5, 990, 1000, 1010}}
        \cup {[address |-> "NUSD_C", data |-> 1000, value |-> 1000]}

\* the receipts: up to MaxLogs token logs in any order
LogLists == UNION {[1..n -> LogChoices] : n \in 0..MaxLogs}

\* the event of a bridge log with the given decoded arguments
EventOf(name, amount, fee, ok, logs) ==
    [block |-> 101, txnHash |-> "hX", eventName |-> name, timestamp |-> 12,
     args |-> [kappa |-> "k7", to |-> "u1", chainId |-> 1, fee |-> fee,
               amount |-> amount, token |-> "USDC_C", swapSuccess |-> ok,
               swapTokenIndex |-> 1],
     logs |-> logs,
     coins |-> <<"NUSD_C", "USDC_C">>]

\* the loop of processEvents reaches an event of chain C
Decode ==
    /\ probe.kind = "none"
    /\ \E name \in LegNames, amount \in Amounts, fee \in Fees, ok \in BOOLEAN,
          logs \in LogLists :
           probe' = [kind |-> "leg", c |-> "C", done |-> FALSE,
                     ev |-> EventOf(name, amount, fee, ok, logs),
                     out |-> [outcome |-> "none"]]
    /\ UNCHANGED <<loopVars, db, prevDb, lastUpsert, hist>>

\* the iteration runs up to the call of upsertBridgeTxnInDb
Extract ==
    /\ probe.kind = "leg"
    /\ ~ probe.done
    /\ probe' = [probe EXCEPT !.done = TRUE, !.out = Leg(probe.ev, probe.c)]
    /\ UNCHANGED <<loopVars, db, prevDb, lastUpsert, hist>>

NextExtract ==
    \/ Decode
    \/ Extract

SpecExtract == Init /\ [][NextExtract]_vars

(***************************************************************************)
(* getSwapPoolCoinAddresses on a pool drawn from a set of pools            *)
(***************************************************************************)
\* iterations of the probing loop: 1 << 8
ProbeCap == 256

\* the pools: the indices at which getToken reverts.  A pool of n coins
\* reverts from n on; {3, 5} answers again at 4, {} never reverts.
Pools == {{0}, {1}, {3}, {3, 5}, {255}, {256}, {}}

\* tokenRes[0] of getToken(i): the address of the coin at index i
CoinOf(i) == <<"coin", i>>

\* getSwapPoolCoinAddresses is called: res = [], i = 0 (lines 84-93)
Resolve ==
    /\ probe.kind = "none"
    /\ \E reverts \in Pools :
           probe' = [kind |-> "pool", reverts |-> reverts, i |-> 0, res |-> <<>>,
                     returned |-> FALSE, threw |-> FALSE]
    /\ UNCHANGED <<loopVars, db, prevDb, lastUpsert, hist>>

\* an iteration in which the exception of the probe leaves the function
GetTokenRethrows ==
    /\ probe.kind = "pool"
    /\ ~ probe.returned
    /\ IF probe.i >= ProbeCap
       THEN probe' = [probe EXCEPT !.returned = TRUE]
       ELSE IF probe.i \in probe.reverts
       THEN probe' = [probe EXCEPT !.returned = TRUE, !.threw = TRUE]
       ELSE probe' = [probe EXCEPT !.res = Append(@, CoinOf(probe.i)), !.i = @ + 1]
    /\ UNCHANGED <<loopVars, db, prevDb, lastUpsert, hist>>

\* one iteration of the loop: the test of i, the probe getToken(i), the
\* push of its result or the break on its exception; `return res` when
\* the loop is left (lines 93-102)
GetToken ==
    /\ probe.kind = "pool"
    /\ ~ probe.returned
    /\ IF probe.i >= ProbeCap \/ probe.i \in probe.reverts
       THEN probe' = [probe EXCEPT !.returned = TRUE]
       ELSE probe' = [probe EXCEPT !.res = Append(@, CoinOf(probe.i)), !.i = @ + 1]
    /\ UNCHANGED <<loopVars, db, prevDb, lastUpsert, hist>>

NextPool ==
    \/ Resolve
    \/ GetToken

SpecPool == Init /\ [][NextPool]_vars

(***************************************************************************)
(* Properties                                                              *)
(***************************************************************************)
\* invocation i is between setting the flag to "true" and resetting it
InPass(i) == pc[i] \in {"l29", "l30", "l35", "l60", "l131", "l118", "l78", "l79", "l84"}

\* invocation i takes a step
Moved(i) == pc'[i] # pc[i] \/ idx'[i] # idx[i]

\* the smaller of two numbers
Least(a, b) == CHOOSE m \in {a, b} : \A x \in {a, b} : m <= x

\* a document holds the OUT side, the IN side
HasOut(doc) == "fromTxnHash" \in DOMAIN doc

HasIn(doc) == "toTxnHash" \in DOMAIN doc

\* C1: at most one invocation per chain is between setting the chain's
\* flag to "true" and resetting it to "false".
MutualExclusion ==
    \A i, j \in Invocations :
        (i # j /\ ChainOf(i) = ChainOf(j)) => ~ (InPass(i) /\ InPass(j))

\* C2: a pass that read the flag as "true" returns at once: no log query,
\* no event processed, flag, checkpoint and collection unchanged.
LockedPassIsNoOp ==
    [][\A i \in Invocations :
          (pc[i] = "l18" /\ isIndexing[i] = "true" /\ Moved(i)) =>
              /\ pc'[i] = "skipped"
              /\ lock' = lock /\ ckpt' = ckpt /\ db' = db
              /\ queried'[i] = <<>> /\ filteredEvents'[i] = <<>>]_vars

\* a pass was skipped while another one of the chain held the flag
SkippedWhileLocked ==
    \E i, j \in Invocations :
        i # j /\ ChainOf(i) = ChainOf(j) /\ pc[i] = "skipped" /\ InPass(j)

\* C3: a step that fails after the flag is taken goes to the catch without
\* writing the checkpoint, the catch resets the flag and leaves the
\* checkpoint alone, and the only step of a pass that writes the checkpoint
\* is the one after the last event of the window has been processed.
FailedPassKeepsCheckpoint ==
    [][\A i \in Invocations :
          /\ (pc'[i] = "l84" /\ pc[i] # "l84") =>
                 /\ pc[i] \in {"l29", "l30", "l60", "l131", "l118"}
                 /\ ckpt' = ckpt
          /\ (pc[i] = "l84" /\ Moved(i)) =>
                 /\ pc'[i] = "failed"
                 /\ lock'[ChainOf(i)] = "false"
                 /\ ckpt' = ckpt
          /\ (Moved(i) /\ ckpt' # ckpt) =>
                 /\ pc[i] = "l78"
                 /\ idx[i] > Len(filteredEvents[i])]_vars

\* a pass failed after it had upserted an event of its window, and the
\* checkpoint is the one the pass started from
FailedAfterUpsert ==
    \E i \in Invocations :
        /\ pc[i] = "failed"
        /\ db # <<>>
        /\ lock[ChainOf(i)] = "false"
        /\ ckpt[ChainOf(i)] = ToStr(100)

\* C4: no write of the checkpoint stores a smaller block number than the
\* one stored before.
CheckpointMonotonic ==
    [][\A c \in Chains :
          (ckpt[c] # <<>> /\ ckpt'[c] # ckpt[c]) =>
              parseInt(ckpt'[c]) >= parseInt(ckpt[c])]_vars

\* C5: a pass that found no checkpoint in the store leaves, when it
\* returns, a checkpoint equal to the head it read.
CheckpointSeeded ==
    [][\A i \in Invocations :
          (pc[i] = "l35" /\ indexedLatestBlock[i] = <<>> /\ pc'[i] \in Returned) =>
              ckpt'[ChainOf(i)] = ToStr(networkLatestBlock[i])]_vars

\* C6: with checkpoint c and head h the log query is over
\* [c, min(h, c + 500)], the checkpoint written is min(h, c + 500), at most
\* 500 blocks after c and not after h.
WindowBound ==
    /\ [](\A i \in Invocations :
            LET h == networkLatestBlock[i]
                c == IndexedLatest(indexedLatestBlock[i], h)
            IN  /\ pc[i] \in {"l131", "l118", "l78", "l79"} =>
                      queried[i] = <<c, Least(h, c + 500)>>
                /\ pc[i] \in {"l60", "l131", "l118", "l78", "l79"} => c # h)
    /\ [][\A i \in Invocations :
            LET h == networkLatestBlock[i]
                c == IndexedLatest(indexedLatestBlock[i], h)
            IN  (pc[i] = "l78" /\ Moved(i)) =>
                    /\ ckpt'[ChainOf(i)] = ToStr(Least(h, c + 500))
                    /\ parseInt(ckpt'[ChainOf(i)]) - c <= 500
                    /\ parseInt(ckpt'[ChainOf(i)]) <= h]_vars

\* a pass with checkpoint 100 and head 1000 has written the checkpoint 600
WindowCapped ==
    \E i \in Invocations :
        /\ pc[i] = "l79"
        /\ networkLatestBlock[i] = 1000
        /\ indexedLatestBlock[i] = ToStr(100)
        /\ queried[i] = <<100, 600>>
        /\ ckpt[ChainOf(i)] = ToStr(600)

\* C7: a pass whose checkpoint equals the head it read returns with the
\* flag reset, without a log query and without a checkpoint write.
NoOpWindow ==
    [][\A i \in Invocations :
          (/\ pc[i] = "l35"
           /\ IndexedLatest(indexedLatestBlock[i], networkLatestBlock[i])
                  = networkLatestBlock[i]
           /\ Moved(i)) =>
              /\ pc'[i] = "uptodate"
              /\ lock'[ChainOf(i)] = "false"
              /\ ckpt' = ckpt /\ db' = db
              /\ queried[i] = <<>> /\ queried'[i] = <<>>
              /\ filteredEvents[i] = <<>> /\ filteredEvents'[i] = <<>>]_vars

\* a pass returned up to date with a stored checkpoint equal to the head
UpToDateAtHead ==
    \E i \in Invocations :
        /\ pc[i] = "uptodate"
        /\ ckpt[ChainOf(i)] = ToStr(head[ChainOf(i)])
        /\ lock[ChainOf(i)] = "false"

\* C8: the second of two successive upserts of the same kappa and partial
\* record leaves the collection as the first one left it.
UpsertIdempotent ==
    (Len(lastUpsert) = 2 /\ lastUpsert[1] = lastUpsert[2]) => db = prevDb

\* the same leg was upserted twice in a row onto a kappa that held the
\* other leg
UpsertedTwice ==
    /\ Len(lastUpsert) = 2
    /\ lastUpsert[1] = lastUpsert[2]
    /\ \E j \in 1..Len(db) : HasOut(db[j]) /\ HasIn(db[j])

\* C9: an upsert onto a kappa that holds the other leg stores the union
\* of both legs, keeps the fields that were present, and the record is not
\* pending once both sides are present, whichever leg came first.
MergeNotReplace ==
    [][\A i \in Invocations :
          (pc[i] = "l118" /\ pc'[i] = "l131" /\ existingTxn[i] # 0) =>
              LET args == Leg(filteredEvents[i][idx[i]], ChainOf(i)).args
                  old  == db[existingTxn[i]]
                  new  == db'[existingTxn[i]]
              IN  ((HasOut(args) /\ HasIn(old)) \/ (HasIn(args) /\ HasOut(old))) =>
                      /\ DOMAIN new = DOMAIN old \cup DOMAIN args
                      /\ \A f \in DOMAIN old \ {"pending"} : new[f] = old[f]
                      /\ \A f \in DOMAIN args \ {"pending"} : new[f] = args[f]
                      /\ new.pending = FALSE]_vars

\* C10: the collection holds at most one record for each kappa.
OneRecordPerKappa ==
    \A j, k \in 1..Len(db) : db[j].kappa = db[k].kappa => j = k

(***************************************************************************)
(* Properties of a worker that runs alone                                  *)
(***************************************************************************)
\* the collection after processEvents ran over the events without failing
RECURSIVE PassResult(_, _, _)
PassResult(d, events, c) ==
    IF events = <<>> THEN d
    ELSE LET leg == Leg(Head(events), c)
         IN  PassResult(IF leg.outcome = "upsert"
                        THEN upsertBridgeTxnInDb(d, leg.kappa, leg.args) ELSE d,
                        Tail(events), c)

\* the number of events of a window whose leg reaches the upsert
UpsertCount(events, c) ==
    Cardinality({k \in 1..Len(events) : Leg(events[k], c).outcome = "upsert"})

\* the pass before the current one failed after some, not all, upserts
FailedPartWay ==
    /\ hist.last # <<>>
    /\ hist.last[1].result = "failed"
    /\ hist.last[1].range # <<>>
    /\ hist.last[1].upserts > 0
    /\ hist.last[1].upserts <
           UpsertCount(QueryLogs("C", hist.last[1].range[1], hist.last[1].range[2]), "C")

\* C11: a pass that failed after some of the upserts of its window left
\* the checkpoint as it was; the next pass starts its window at the same
\* block and, when it runs to the end over a window that reaches as far,
\* finishes every event of the failed window; over the same window it leaves
\* the collection and the checkpoint as one pass without failure from the
\* collection the failed pass started on.
RetryEqualsUninterrupted ==
    FailedPartWay =>
        LET last   == hist.last[1]
            window == QueryLogs("C", last.range[1], last.range[2])
        IN  /\ last.ckpt1 = last.ckpt0
            /\ hist.range # <<>> => hist.range[1] = last.range[1]
            /\ (pc["c1"] = "done" /\ hist.range[2] >= last.range[2]) =>
                   \A k \in 1..Len(window) :
                       \E j \in 1..Len(hist.log) :
                           hist.log[j].op \in {"upsert", "skip"} /\ hist.log[j].n = k
            /\ (pc["c1"] = "done" /\ hist.range = last.range) =>
                   /\ db = PassResult(last.db0, window, "C")
                   /\ ckpt["C"] = ToStr(last.range[2])

\* the pass after one that failed part way ran to the end over the same
\* window
RetriedToTheEnd ==
    /\ FailedPartWay
    /\ pc["c1"] = "done"
    /\ hist.range = hist.last[1].range
    /\ Len(db) >= 2

(***************************************************************************)
(* Properties of the extraction of one event                               *)
(***************************************************************************)
\* the iteration on the drawn event of the given name reached the upsert
Upserted(name) ==
    /\ probe.kind = "leg"
    /\ probe.done
    /\ probe.ev.eventName = name
    /\ probe.out.outcome = "upsert"

\* C12: the persisted receivedValue of a TokenWithdraw leg is amount - fee;
\* a failed swap and a mint leg persist the value of a receipt log less the
\* fee, a successful swap the value of a receipt log.
FeeSubtractedOnce ==
    LET ev   == probe.ev
        rv   == probe.out.args.receivedValue
        logs == ev.logs
    IN  /\ Upserted("TokenWithdraw") => rv = ev.args.amount - ev.args.fee
        /\ Upserted("TokenMint") =>
               \E k \in 1..Len(logs) : rv = logs[k].data - ev.args.fee
        /\ (Upserted("TokenWithdrawAndRemove") \/ Upserted("TokenMintAndSwap")) =>
               \E k \in 1..Len(logs) :
                   rv = logs[k].value - (IF ev.args.swapSuccess THEN 0 ELSE ev.args.fee)

\* C16: every sentValue and every receivedValue handed to the upsert is a
\* non-negative integer.
NonNegativeValues ==
    (probe.kind = "leg" /\ probe.done /\ probe.out.outcome = "upsert") =>
        /\ "sentValue" \in DOMAIN probe.out.args =>
               probe.out.args.sentValue \in Nat
        /\ "receivedValue" \in DOMAIN probe.out.args =>
               probe.out.args.receivedValue \in Nat

\* the logs of the receipt before position j
Before(j) == 1..(j - 1)

\* the drawn TokenMint leg whose scanned value differs from the amount
\* reached the upsert
MintCorrected ==
    /\ Upserted("TokenMint")
    /\ \E j \in 1..Len(probe.ev.logs) :
           /\ probe.ev.logs[j].address = probe.ev.args.token
           /\ \A k \in Before(j) : probe.ev.logs[k].address # probe.ev.args.token
           /\ probe.ev.logs[j].value # probe.ev.args.amount

\* the values the leg persists are those of log j, the fee adjustment
\* applied to the value
TakenFrom(j) ==
    /\ probe.out.args.receivedValue = probe.ev.logs[j].data - probe.ev.args.fee
    /\ probe.out.args.receivedTokenAddress = probe.ev.logs[j].address

\* C17 as stated: the rescan of a TokenMint leg takes the first log whose
\* value does not exceed the decoded amount, a log equal to the amount
\* included.
MintTakesFirstNotAbove ==
    MintCorrected =>
        \A j \in 1..Len(probe.ev.logs) :
            (/\ probe.ev.logs[j].data <= probe.ev.args.amount
             /\ \A k \in Before(j) : probe.ev.logs[k].data > probe.ev.args.amount)
                => TakenFrom(j)

\* C17: the rescan of a TokenMint leg takes the first log whose value is
\* below the decoded amount, passing over a log equal to the amount, and
\* the last log when none is below; later logs are not considered.
MintTakesFirstBelow ==
    MintCorrected =>
        \A j \in 1..Len(probe.ev.logs) :
            (/\ \A k \in Before(j) : probe.ev.logs[k].data >= probe.ev.args.amount
             /\ \/ probe.ev.logs[j].data < probe.ev.args.amount
                \/ j = Len(probe.ev.logs))
                => TakenFrom(j)

\* a mint whose first log equals the amount and whose second is below it
MintPassedOverEqual ==
    /\ MintCorrected
    /\ Len(probe.ev.logs) = 2
    /\ probe.ev.logs[1].data = probe.ev.args.amount
    /\ probe.ev.logs[2].data < probe.ev.args.amount
    /\ TakenFrom(2)

(***************************************************************************)
(* Properties of the pool resolution                                       *)
(***************************************************************************)
\* the first index at which the pool reverts, ProbeCap when there is none
\* below it
FirstRevert(reverts) ==
    LET S == {k \in reverts : k < ProbeCap}
    IN  IF S = {} THEN ProbeCap ELSE CHOOSE k \in S : \A m \in S : k <= m

\* C13: the resolver probes the indices in order and returns the coins at
\* 0..k-1 in order, k the first reverting index; it stops after at most 256
\* probes with at most 256 coins, and a reverting probe ends the list
\* without failing the resolver.
PoolResolution ==
    probe.kind = "pool" =>
        LET k == FirstRevert(probe.reverts)
        IN  /\ probe.i <= k
            /\ probe.i <= ProbeCap
            /\ Len(probe.res) = probe.i
            /\ \A j \in 1..Len(probe.res) : probe.res[j] = CoinOf(j - 1)
            /\ ~ probe.threw
            /\ probe.returned => (probe.i = k /\ Len(probe.res) <= 256)

\* the resolver returned three coins from a pool that reverts at index 3
ResolvedThreeCoins ==
    /\ probe.kind = "pool"
    /\ 3 \in probe.reverts
    /\ probe.returned
    /\ probe.res = <<CoinOf(0), CoinOf(1), CoinOf(2)>>

(***************************************************************************)
(* Properties of the batch of a worker that runs alone                     *)
(***************************************************************************)
\* the bridge logs of chain C in the blocks of a window, registered or not
OnChain(range) ==
    SelectSeq(ChainEvents("C"), LAMBDA e : range[1] <= e.block /\ e.block <= range[2])

\* the event is skipped: its topic is not registered, its IN event name is
\* not covered, or no received value is found in the logs of its receipt
Skipped(e) == e.eventName \notin Topics \/ Leg(e, "C").outcome = "skip"

\* a record of the collection stems from the event
RecordOf(doc, e) ==
    \/ "fromTxnHash" \in DOMAIN doc /\ doc.fromTxnHash = e.txnHash
    \/ "toTxnHash" \in DOMAIN doc /\ doc.toTxnHash = e.txnHash

\* the log of the current pass holds the given effect for the event at
\* position k of the window
Logged(op, k) == \E j \in 1..Len(hist.log) : hist.log[j] = Entry(op, k)

\* C14: no record is written for a skipped event; a skipped event does not
\* end the pass (the pass heads for the catch only after an exception of a
\* call to the outside); and a pass that meets no exception handles every
\* event of its window, skipped ones included, and writes the window end
\* to the checkpoint.
SkipsDoNotAbort ==
    LET window == IF hist.range = <<>> THEN <<>>
                  ELSE QueryLogs("C", hist.range[1], hist.range[2])
    IN  /\ \A k \in 1..Len(ChainEvents("C")) :
               Skipped(ChainEvents("C")[k]) =>
                   \A j \in 1..Len(db) : ~ RecordOf(db[j], ChainEvents("C")[k])
        /\ \A k \in 1..Len(window) :
               /\ Logged("skip", k) => Skipped(window[k])
               /\ Logged("upsert", k) => ~ Skipped(window[k])
        /\ pc["c1"] \in {"l84", "failed"} => Count(hist.log, "fault") = 1
        /\ pc["c1"] \in {"l78", "l79", "done"} =>
               \A k \in 1..Len(window) : Logged("skip", k) \/ Logged("upsert", k)
        /\ pc["c1"] = "done" => ckpt["C"] = ToStr(hist.range[2])

\* a pass ran to the end over a window that holds the three kinds of
\* skipped event, each followed by an event that was upserted
SkippedThreeKinds ==
    /\ pc["c1"] = "done"
    /\ hist.range = <<100, 101>>
    /\ \E k \in 1..Len(OnChain(hist.range)) :
           OnChain(hist.range)[k].eventName \notin Topics
    /\ Logged("upsert", 1)
    /\ Logged("skip", 2)
    /\ QueryLogs("C", 100, 101)[2].eventName = "TokenWithdrawV2"
    /\ Logged("skip", 3)
    /\ QueryLogs("C", 100, 101)[3].eventName = "TokenMintAndSwap"
    /\ Logged("upsert", 4)
    /\ Len(db) = 2
    /\ ckpt["C"] = ToStr(101)

Ends(entry) == entry.op \in {"upsert", "skip"}

\* C18: the events of a window are started one after the other in the
\* order of the query, each one only after the upsert (or the skip) of the
\* one before has ended; the checkpoint is written after the last event has
\* ended, with the window end, and before the flag is reset, which is the
\* last effect of the pass.
OrderedPass ==
    LET log == hist.log
        n   == IF hist.range = <<>> THEN 0
               ELSE Len(QueryLogs("C", hist.range[1], hist.range[2]))
    IN  \A j \in 1..Len(log) :
            /\ log[j].op = "query" => log[j].n = n
            /\ log[j].op = "begin" =>
                   /\ j > 1
                   /\ log[j].n \in 1..n
                   /\ IF log[j].n = 1 THEN log[j - 1].op = "query"
                      ELSE Ends(log[j - 1]) /\ log[j - 1].n = log[j].n - 1
            /\ Ends(log[j]) =>
                   /\ j > 1
                   /\ log[j - 1] = Entry("begin", log[j].n)
            /\ log[j].op = "upsert" =>
                   \E d \in 1..Len(db) :
                       RecordOf(db[d], QueryLogs("C", hist.range[1], hist.range[2])[log[j].n])
            /\ log[j].op = "checkpoint" =>
                   /\ j > 1
                   /\ IF n = 0 THEN log[j - 1].op = "query"
                      ELSE Ends(log[j - 1]) /\ log[j - 1].n = n
                   /\ log[j].n = hist.range[2]
                   /\ \A k \in 1..j : log[k].op # "unlock"
            /\ log[j].op = "unlock" =>
                   /\ j = Len(log)
                   /\ pc["c1"] = "done" => log[j - 1].op = "checkpoint"

\* a pass over the four events of the window 100..101 has run to the end
PassInOrder ==
    /\ pc["c1"] = "done"
    /\ hist.log = <<Entry("lock", 0), Entry("query", 4),
                    Entry("begin", 1), Entry("upsert", 1),
                    Entry("begin", 2), Entry("skip", 2),
                    Entry("begin", 3), Entry("skip", 3),
                    Entry("begin", 4), Entry("upsert", 4),
                    Entry("checkpoint", 101), Entry("unlock", 0)>>

(***************************************************************************)
(* Properties of the windows of successive passes                          *)
(***************************************************************************)
\* C19: the window of a pass that ran to the end starts at the block at
\* which the window of the one before ended, the first at the first
\* checkpoint; the checkpoint is the end of the latest such window, and no
\* block between the first checkpoint and the checkpoint was left out of
\* the queries of these passes (a pass counts once it has returned).
NoGaps ==
    hist.okLast # <<>> =>
        /\ hist.okPrevEnd # 0 => hist.okLast[1] = hist.okPrevEnd
        /\ hist.okPrevEnd = 0 => hist.okLast[1] = parseInt(hist.first)
        /\ pc["c1"] \in Returned => ckpt["C"] = ToStr(hist.okLast[2])
        /\ ~ hist.gap
        /\ (hist.hi # 0 /\ pc["c1"] # "l79") =>
               /\ hist.lo <= parseInt(hist.first)
               /\ \A b \in parseInt(hist.first)..parseInt(ckpt["C"]) :
                      hist.lo <= b /\ b <= hist.hi

\* the window 600..700 followed the capped window 100..600
SecondWindow ==
    /\ pc["c1"] = "done"
    /\ hist.okPrevEnd = 600
    /\ hist.okLast = <<600, 700>>
    /\ hist.lo = 100
    /\ hist.hi = 700
    /\ ckpt["C"] = ToStr(700)

====
